---- MODULE Spec2Model ----
(***************************************************************************)
(* Model of the SD-card scanning firmware in src/src/main.rs: the scanner  *)
(* task (sd_card_task), one scan attempt (read_sd_card), the two shared    *)
(* mutex-protected statics SD_FILES and SD_STATUS, and the HTTP reader     *)
(* (http_server_task / handle_client).                                     *)
(*                                                                         *)
(* Scheduling: all tasks are spawned on the single thread-mode executor    *)
(* created by #[embassy_executor::main].  A task that is being polled runs *)
(* until one of its awaits is pending; only then is another task polled.   *)
(* Mutex::lock().await is pending exactly when the mutex is held.          *)
(***************************************************************************)
EXTENDS Integers, Sequences, FiniteSets, TLC

\* ------------------------------------------------------------------ bounds
\* Longest root directory the model enumerates (longer than the capacity).
MaxDirLen == 33
\* Length of the short directories the model enumerates.
SmallDirLen == 2

\* ------------------------------------------------------- program constants
\* heapless::Vec<FileInfo, 32>
CAP == 32
\* Timer::after(Duration::from_secs(3)) at task start
SETTLE_SECS == 3
\* Timer::after(Duration::from_secs(15)) at the end of every loop iteration
SCAN_INTERVAL_SECS == 15

STATUS_INIT == "Initializing..."
STATUS_READY == "Ready"
MSG_PROBE == "No SD card detected"
\* Faulty variant, used to test the properties: the mount branch reporting the probe message.
MountMessageOfProbe == "No SD card detected"
MSG_MOUNT == "Failed to open volume (format as FAT32)"
\* Faulty variant, used to test the properties: a sixth, misspelt message.
OpenRootMessageTypo == "Failed to open root dir"
MSG_OPENROOT == "Failed to open root directory"

\* The peripherals main() hands to sd_card_task.
SPI0 == "SPI0"
PIN_5 == "PIN_5"
Moved == "moved"

\* ------------------------------------------------------------ pure helpers
\* The i-th directory entry of a card as iterate_dir presents it.
DirEntry(i) == [name |-> i, size |-> i * 1024, directory |-> (i % 3 = 0)]

\* struct FileInfo { name, size, is_dir } built by the iterate_dir callback.
FileInfo(entry) ==
    [name |-> entry.name, size |-> entry.size, is_dir |-> entry.directory]

\* A root directory of n entries, enumerated forwards or backwards.
Dir(n, rev) == [i \in 1..n |-> DirEntry(IF rev THEN n + 1 - i ELSE i)]

DirLens == {0, SmallDirLen, CAP, MaxDirLen}
Dirs == {Dir(n, rev) : n \in DirLens, rev \in BOOLEAN}

\* Number of entries iterate_dir hands to the callback before it returns:
\* all of them (Ok) or only the first one (Err after one entry).
Yielded(dir) == {Len(dir)} \cup (IF Len(dir) > 1 THEN {1} ELSE {})

\* Faulty variant, used to test the properties: a push that ignores the capacity.
PushPastCapacity(v, e) == Append(v, e)
\* heapless::Vec::push: appends unless the vector is full; the Err is dropped
\* by `let _ =`.
Push(v, e) == IF Len(v) < CAP THEN Append(v, e) ELSE v

\* The iterate_dir callback applied to the first k entries of dir.
RECURSIVE Collect(_, _, _)
Collect(v, dir, k) ==
    IF k = 0 THEN v
    ELSE Push(Collect(v, dir, k - 1), FileInfo(dir[k]))

NoResult == [tag |-> "none", new_spi |-> Moved, new_cs |-> Moved, err |-> ""]
OkResult(s, c) == [tag |-> "Ok", new_spi |-> s, new_cs |-> c, err |-> ""]
ErrResult(s, c, e) == [tag |-> "Err", new_spi |-> s, new_cs |-> c, err |-> e]

VARIABLES
    SD_FILES,       \* contents of the SD_FILES mutex
    SD_STATUS,      \* contents of the SD_STATUS mutex
    files_guard,    \* task holding the SD_FILES MutexGuard, or "none"
    status_guard,   \* task holding the SD_STATUS MutexGuard, or "none"
    s_pc,           \* position of sd_card_task
    s_timer,        \* seconds of the Timer sd_card_task last armed
    spi, cs,        \* sd_card_task's variables spi and cs
    layers,         \* driver layers currently wrapping the pair, innermost first
    dev_spi, dev_cs,\* the pair as held inside the driver layers
    volume_open,    \* a volume handle is open in the VolumeManager
    dir_open,       \* a directory handle is open in the VolumeManager
    released,       \* what the current scan attempt has released, in order
    stages,         \* driver stages the current scan attempt has run, in order
    enumerated,     \* directory entries iterate_dir handed to the callback
    file_list,      \* read_sd_card's file_list, then the Ok payload
    push_i,         \* entries of file_list the publishing loop has consumed
    result,         \* value returned by read_sd_card
    r_pc,           \* position of http_server_task / handle_client
    status_str,     \* handle_client's copy of the status
    file_count,     \* handle_client's file_count
    rendered,       \* entries written to the socket for the current response
    committed,      \* (Status, Catalog) at the last scan-cycle boundary
    roundtrip,      \* progress through probe-, mount-, open-failure, success
    cs_count,       \* guard acquisitions by sd_card_task in the current cycle
    last_listing,   \* list returned by the most recent successful scan attempt
    ready_listing,  \* list returned by the scan that last set Status to "Ready"
    ignored         \* driver errors discarded by the scan attempt just made

vars == <<SD_FILES, SD_STATUS, files_guard, status_guard, s_pc, s_timer, spi, cs,
          layers, dev_spi, dev_cs, volume_open, dir_open, released, stages,
          enumerated, file_list, push_i, result, r_pc, status_str, file_count,
          rendered, committed, roundtrip, cs_count, last_listing,
          ready_listing, ignored>>

sharedVars == <<SD_FILES, SD_STATUS, files_guard, status_guard>>
taskVars == <<s_timer, spi, cs>>
driverVars == <<layers, dev_spi, dev_cs, volume_open, dir_open, released, stages,
                enumerated>>
listVars == <<file_list, push_i>>
ghostVars == <<committed, roundtrip, cs_count, last_listing, ready_listing,
               ignored>>
readerVars == <<r_pc, status_str, file_count, rendered>>
scannerVars == <<s_pc, taskVars, driverVars, listVars, result, ghostVars>>

\* ---------------------------------------------------------------- executor
\* Mutex::lock(): the future is pending while the mutex is locked.
LockPending(guard) == guard # "none"

\* sd_card_task is suspended at a timer, or at a lock() that is pending.
ScannerSuspended ==
    \/ s_pc \in {"settle", "sleep"}
    \/ s_pc = "lock_files" /\ LockPending(files_guard)
    \/ s_pc \in {"lock_status", "lock_status_err"} /\ LockPending(status_guard)

\* http_server_task is suspended at a timer, at socket I/O, or at a pending lock().
\* At "panicked" it is neither: the panic handler has halted the core inside
\* this task's poll, so no task is polled again.
ReaderSocketIO == {"accept", "read", "write_head", "write_empty", "write_count",
                   "write_entry", "write_foot"}
ReaderTimers == {"startup", "accept_backoff", "client_timer", "abort_timer"}
ReaderSuspended ==
    \/ r_pc \in ReaderSocketIO \cup ReaderTimers
    \/ r_pc = "lock_status" /\ LockPending(status_guard)
    \/ r_pc = "lock_files" /\ LockPending(files_guard)

\* Faulty variant, used to test the properties: sd_card_task polled in the middle of another task's poll.
ScannerPreempts == TRUE
\* The executor polls a task only when no other task is in the middle of a poll.
ScannerMayRun == ReaderSuspended
ReaderMayRun == ScannerSuspended

Init ==
    /\ SD_FILES = <<>>
    /\ SD_STATUS = STATUS_INIT
    /\ files_guard = "none"
    /\ status_guard = "none"
    /\ s_pc = "settle"
    /\ s_timer = SETTLE_SECS
    /\ spi = SPI0
    /\ cs = PIN_5
    /\ layers = <<>>
    /\ dev_spi = Moved
    /\ dev_cs = Moved
    /\ volume_open = FALSE
    /\ dir_open = FALSE
    /\ released = <<>>
    /\ stages = <<>>
    /\ enumerated = <<>>
    /\ file_list = <<>>
    /\ push_i = 0
    /\ result = NoResult
    /\ r_pc = "startup"
    /\ status_str = ""
    /\ file_count = 0
    /\ rendered = <<>>
    /\ committed = [status |-> STATUS_INIT, files |-> <<>>]
    /\ roundtrip = 0
    /\ cs_count = [files |-> 0, status |-> 0]
    /\ last_listing = <<>>
    /\ ready_listing = <<>>
    /\ ignored = {}

\* ------------------------------------------------- ghost bookkeeping only
\* Progress through the sequence probe failure, mount failure, open-root
\* failure, success over consecutive scan attempts.
NextRound(r, outcome) ==
    CASE outcome = MSG_PROBE -> 1
      [] outcome = MSG_MOUNT /\ r = 1 -> 2
      [] outcome = MSG_OPENROOT /\ r = 2 -> 3
      [] outcome = "Ok" /\ r = 3 -> 4
      [] OTHER -> 0

\* ------------------------------------------------------------ sd_card_task
\* Timer::after(Duration::from_secs(3)).await completes.
S_SettleDone ==
    /\ s_pc = "settle"
    /\ ScannerMayRun
    /\ s_pc' = "begin_scan"
    /\ UNCHANGED <<sharedVars, taskVars, driverVars, listVars, result, ghostVars,
                   readerVars>>

\* Top of the loop: ExclusiveDevice::new(spi, cs, Delay) moves the pair.
S_BeginScan ==
    /\ s_pc = "begin_scan"
    /\ ScannerMayRun
    /\ spi # Moved /\ cs # Moved
    /\ layers' = <<"device">>
    /\ dev_spi' = spi
    /\ dev_cs' = cs
    /\ spi' = Moved
    /\ cs' = Moved
    /\ released' = <<>>
    /\ stages' = <<>>
    /\ enumerated' = <<>>
    /\ result' = NoResult
    /\ committed' = [status |-> SD_STATUS, files |-> SD_FILES]
    /\ cs_count' = [files |-> 0, status |-> 0]
    /\ s_pc' = "new_sdcard"
    /\ UNCHANGED <<sharedVars, readerVars, s_timer, volume_open, dir_open,
                   listVars, roundtrip,
                   last_listing, ready_listing, ignored>>

\* read_sd_card entry: empty file_list, SdCard::new(spi_device, Delay).
S_NewSdCard ==
    /\ s_pc = "new_sdcard"
    /\ ScannerMayRun
    /\ file_list' = <<>>
    /\ layers' = Append(layers, "sdcard")
    /\ s_pc' = "probe"
    /\ UNCHANGED <<sharedVars, readerVars, taskVars, dev_spi, dev_cs, volume_open,
                   dir_open, released, stages, enumerated, push_i, result,
                   ghostVars>>

\* sd_card.num_bytes(): Ok goes on to VolumeManager::new; Err frees the card
\* driver, releases the device and returns the pair with the probe message.
S_Probe ==
    /\ s_pc = "probe"
    /\ ScannerMayRun
    /\ stages' = Append(stages, "probe")
    /\ \E ok \in BOOLEAN :
        IF ok
        THEN /\ layers' = Append(layers, "volmgr")
             /\ s_pc' = "mount"
             /\ UNCHANGED <<dev_spi, dev_cs, released, result, roundtrip>>
        ELSE /\ layers' = <<>>
             /\ released' = <<"sdcard", "device">>
             /\ result' = ErrResult(dev_spi, dev_cs, MSG_PROBE)
             /\ dev_spi' = Moved
             /\ dev_cs' = Moved
             /\ roundtrip' = NextRound(roundtrip, MSG_PROBE)
             /\ s_pc' = "lock_status_err"
    /\ UNCHANGED <<sharedVars, readerVars, taskVars, volume_open, dir_open,
                   enumerated, listVars, committed, cs_count,
                   last_listing, ready_listing, ignored>>

\* volume_mgr.open_volume(VolumeIdx(0)).
S_Mount ==
    /\ s_pc = "mount"
    /\ ScannerMayRun
    /\ stages' = Append(stages, "mount")
    /\ \E ok \in BOOLEAN :
        IF ok
        THEN /\ volume_open' = TRUE
             /\ s_pc' = "open_root"
             /\ UNCHANGED <<layers, dev_spi, dev_cs, released, result, roundtrip>>
        ELSE /\ layers' = <<>>
             /\ released' = <<"volmgr", "sdcard", "device">>
             /\ result' = ErrResult(dev_spi, dev_cs, MSG_MOUNT)
             /\ dev_spi' = Moved
             /\ dev_cs' = Moved
             /\ roundtrip' = NextRound(roundtrip, MSG_MOUNT)
             /\ s_pc' = "lock_status_err"
             /\ UNCHANGED volume_open
    /\ UNCHANGED <<sharedVars, readerVars, taskVars, dir_open, enumerated,
                   listVars, committed, cs_count,
                   last_listing, ready_listing, ignored>>

\* Faulty variant, used to test the properties: the open-root failure path
\* frees the volume manager without closing the volume it had opened.
S_OpenRootLeavesVolumeOpen ==
    /\ s_pc = "open_root"
    /\ ScannerMayRun
    /\ stages' = Append(stages, "open_root")
    /\ \E ok \in BOOLEAN :
        IF ok
        THEN /\ dir_open' = TRUE
             /\ s_pc' = "iterate"
             /\ UNCHANGED <<layers, dev_spi, dev_cs, released, result, roundtrip,
                            volume_open>>
        ELSE /\ layers' = <<>>
             /\ released' = <<"volmgr", "sdcard", "device">>
             /\ result' = ErrResult(dev_spi, dev_cs, MSG_OPENROOT)
             /\ dev_spi' = Moved
             /\ dev_cs' = Moved
             /\ roundtrip' = NextRound(roundtrip, MSG_OPENROOT)
             /\ s_pc' = "lock_status_err"
             /\ UNCHANGED <<dir_open, volume_open>>
    /\ UNCHANGED <<sharedVars, readerVars, taskVars, enumerated, listVars,
                   committed, cs_count, last_listing, ready_listing,
                   ignored>>

\* volume_mgr.open_root_dir(volume); on Err close_volume(volume).ok() first.
S_OpenRoot ==
    /\ s_pc = "open_root"
    /\ ScannerMayRun
    /\ stages' = Append(stages, "open_root")
    /\ \E ok \in BOOLEAN :
        IF ok
        THEN /\ dir_open' = TRUE
             /\ s_pc' = "iterate"
             /\ UNCHANGED <<layers, dev_spi, dev_cs, released, result, roundtrip,
                            volume_open, ignored>>
        ELSE /\ \E close_volume_ok \in BOOLEAN :
                    ignored' = IF close_volume_ok THEN ignored
                               ELSE ignored \cup {"close_volume"}
             /\ volume_open' = FALSE
             /\ layers' = <<>>
             /\ released' = <<"volume", "volmgr", "sdcard", "device">>
             /\ result' = ErrResult(dev_spi, dev_cs, MSG_OPENROOT)
             /\ dev_spi' = Moved
             /\ dev_cs' = Moved
             /\ roundtrip' = NextRound(roundtrip, MSG_OPENROOT)
             /\ s_pc' = "lock_status_err"
             /\ UNCHANGED dir_open
    /\ UNCHANGED <<sharedVars, readerVars, taskVars, enumerated, listVars,
                   committed, cs_count, last_listing, ready_listing>>

\* volume_mgr.iterate_dir(root_dir, |entry| file_list.push(..)); its Result
\* is discarded.
S_Iterate ==
    /\ s_pc = "iterate"
    /\ ScannerMayRun
    /\ stages' = Append(stages, "iterate")
    /\ \E dir \in Dirs : \E k \in Yielded(dir) :
        /\ enumerated' = SubSeq(dir, 1, k)
        /\ ignored' = IF k < Len(dir) THEN ignored \cup {"iterate_dir"}
                                      ELSE ignored
        /\ file_list' = Collect(file_list, dir, k)
    /\ s_pc' = "close"
    /\ UNCHANGED <<sharedVars, readerVars, taskVars, layers, dev_spi, dev_cs,
                   volume_open, dir_open, released, push_i, result, committed,
                   roundtrip, cs_count, last_listing, ready_listing>>

\* Faulty variant, used to test the properties: a failed close_dir or
\* close_volume is propagated as a scan failure instead of being discarded.
S_ClosePropagatesErrors ==
    /\ s_pc = "close"
    /\ ScannerMayRun
    /\ stages' = Append(stages, "close")
    /\ \E close_dir_ok \in BOOLEAN, close_volume_ok \in BOOLEAN :
        /\ dir_open' = FALSE
        /\ volume_open' = FALSE
        /\ released' = <<"dir", "volume", "volmgr", "sdcard", "device">>
        /\ ignored' = ignored
               \cup (IF close_dir_ok THEN {} ELSE {"close_dir"})
               \cup (IF close_volume_ok THEN {} ELSE {"close_volume"})
        /\ IF close_dir_ok /\ close_volume_ok
           THEN /\ result' = OkResult(dev_spi, dev_cs)
                /\ last_listing' = file_list
                /\ roundtrip' = NextRound(roundtrip, "Ok")
                /\ s_pc' = "lock_files"
           ELSE /\ result' = ErrResult(dev_spi, dev_cs, MSG_OPENROOT)
                /\ last_listing' = last_listing
                /\ roundtrip' = NextRound(roundtrip, "Err")
                /\ s_pc' = "lock_status_err"
    /\ layers' = <<>>
    /\ dev_spi' = Moved
    /\ dev_cs' = Moved
    /\ UNCHANGED <<sharedVars, readerVars, taskVars, enumerated, listVars,
                   committed, cs_count, ready_listing>>

\* close_dir(..).ok(); close_volume(..).ok(); free the layers; return Ok.
S_Close ==
    /\ s_pc = "close"
    /\ ScannerMayRun
    /\ stages' = Append(stages, "close")
    /\ \E close_dir_ok \in BOOLEAN, close_volume_ok \in BOOLEAN :
        /\ dir_open' = FALSE
        /\ volume_open' = FALSE
        /\ released' = <<"dir", "volume", "volmgr", "sdcard", "device">>
        /\ ignored' = ignored
               \cup (IF close_dir_ok THEN {} ELSE {"close_dir"})
               \cup (IF close_volume_ok THEN {} ELSE {"close_volume"})
    /\ layers' = <<>>
    /\ result' = OkResult(dev_spi, dev_cs)
    /\ last_listing' = file_list
    /\ dev_spi' = Moved
    /\ dev_cs' = Moved
    /\ roundtrip' = NextRound(roundtrip, "Ok")
    /\ s_pc' = "lock_files"
    /\ UNCHANGED <<sharedVars, readerVars, taskVars, enumerated, listVars,
                   committed, cs_count, ready_listing>>

\* Faulty variant, used to test the properties: the Ok arm takes no Catalog
\* guard and goes straight on to publish "Ready", leaving the old Catalog.
S_LockFilesSkipsReplace ==
    /\ s_pc = "lock_files"
    /\ ScannerMayRun
    /\ s_pc' = "lock_status"
    /\ ignored' = {}
    /\ UNCHANGED <<sharedVars, readerVars, taskVars, driverVars, listVars,
                   result, committed, roundtrip, cs_count, last_listing,
                   ready_listing>>

\* Faulty variant, used to test the properties: the Ok arm writing without waiting for the SD_FILES guard.
S_LockFilesWithoutWaiting ==
    /\ s_pc = "lock_files"
    /\ ReaderSuspended
    /\ files_guard' = "scanner"
    /\ cs_count' = [cs_count EXCEPT !.files = @ + 1]
    /\ s_pc' = "clear"
    /\ ignored' = {}
    /\ UNCHANGED <<SD_FILES, SD_STATUS, status_guard, readerVars, taskVars,
                   driverVars, listVars, result, committed, roundtrip,
                   last_listing, ready_listing>>
\* Ok arm: SD_FILES.lock().await; runs only once the mutex is free.
S_LockFiles ==
    /\ s_pc = "lock_files"
    /\ ScannerMayRun
    /\ ~LockPending(files_guard)
    /\ files_guard' = "scanner"
    /\ cs_count' = [cs_count EXCEPT !.files = @ + 1]
    /\ s_pc' = "clear"
    /\ ignored' = {}
    /\ UNCHANGED <<SD_FILES, SD_STATUS, status_guard, readerVars, taskVars,
                   driverVars, listVars, result, committed, roundtrip,
                   last_listing, ready_listing>>

\* Faulty variant, used to test the properties: the old Catalog is not
\* cleared before the returned list is pushed onto it.
S_ClearKeepsOld ==
    /\ s_pc = "clear"
    /\ ScannerMayRun
    /\ files_guard = "scanner"
    /\ push_i' = 0
    /\ s_pc' = "push"
    /\ UNCHANGED <<sharedVars, readerVars, taskVars, driverVars, file_list,
                   result, ghostVars>>

\* files.clear()
S_Clear ==
    /\ s_pc = "clear"
    /\ ScannerMayRun
    /\ files_guard = "scanner"
    /\ SD_FILES' = <<>>
    /\ push_i' = 0
    /\ s_pc' = "push"
    /\ UNCHANGED <<SD_STATUS, files_guard, status_guard, readerVars, taskVars,
                   driverVars, file_list, result, ghostVars>>

\* for file in file_list { let _ = files.push(file); }  -- one iteration
S_Push ==
    /\ s_pc = "push"
    /\ ScannerMayRun
    /\ files_guard = "scanner"
    /\ push_i < Len(file_list)
    /\ SD_FILES' = Push(SD_FILES, file_list[push_i + 1])
    /\ push_i' = push_i + 1
    /\ UNCHANGED <<SD_STATUS, files_guard, status_guard, readerVars, taskVars,
                   driverVars, file_list, result, ghostVars, s_pc>>

\* Faulty variant, used to test the properties: the SD_FILES guard is never dropped.
S_UnlockFilesLeaksGuard ==
    /\ s_pc = "push"
    /\ ScannerMayRun
    /\ push_i = Len(file_list)
    /\ push_i' = 0
    /\ s_pc' = "lock_status"
    /\ UNCHANGED <<sharedVars, readerVars, taskVars, driverVars, file_list,
                   result, ghostVars>>

\* The loop is exhausted; at the end of the block the SD_FILES guard is dropped.
S_UnlockFiles ==
    /\ s_pc = "push"
    /\ ScannerMayRun
    /\ push_i = Len(file_list)
    /\ files_guard' = "none"
    /\ push_i' = 0
    /\ s_pc' = "lock_status"
    /\ UNCHANGED <<SD_FILES, SD_STATUS, status_guard, readerVars, taskVars,
                   driverVars, file_list, result, ghostVars>>

\* Ok arm: SD_STATUS.lock().await
S_LockStatus ==
    /\ s_pc = "lock_status"
    /\ ScannerMayRun
    /\ ~LockPending(status_guard)
    /\ status_guard' = "scanner"
    /\ cs_count' = [cs_count EXCEPT !.status = @ + 1]
    /\ s_pc' = "set_ready"
    /\ UNCHANGED <<SD_FILES, SD_STATUS, files_guard, readerVars, taskVars,
                   driverVars, listVars, result, committed, roundtrip,
                   last_listing, ready_listing, ignored>>

\* *status = "Ready"; the guard is dropped at the end of the block.
S_SetReady ==
    /\ s_pc = "set_ready"
    /\ ScannerMayRun
    /\ status_guard = "scanner"
    /\ SD_STATUS' = STATUS_READY
    /\ ready_listing' = file_list
    /\ status_guard' = "none"
    /\ s_pc' = "store"
    /\ UNCHANGED <<SD_FILES, files_guard, readerVars, taskVars, driverVars,
                   listVars, result, committed, roundtrip, cs_count,
                   last_listing, ignored>>

\* Err arm: SD_STATUS.lock().await
S_LockStatusErr ==
    /\ s_pc = "lock_status_err"
    /\ ScannerMayRun
    /\ ~LockPending(status_guard)
    /\ status_guard' = "scanner"
    /\ cs_count' = [cs_count EXCEPT !.status = @ + 1]
    /\ s_pc' = "set_err"
    /\ ignored' = {}
    /\ UNCHANGED <<SD_FILES, SD_STATUS, files_guard, readerVars, taskVars,
                   driverVars, listVars, result, committed, roundtrip,
                   last_listing, ready_listing>>

\* Faulty variant, used to test the properties: the Err arm also empties the Catalog.
S_SetErrClearsCatalog ==
    /\ s_pc = "set_err"
    /\ ScannerMayRun
    /\ status_guard = "scanner"
    /\ SD_STATUS' = result.err
    /\ SD_FILES' = <<>>
    /\ status_guard' = "none"
    /\ s_pc' = "store"
    /\ UNCHANGED <<files_guard, readerVars, taskVars, driverVars, listVars,
                   result, ghostVars>>
\* *status = e; the guard is dropped at the end of the block.
S_SetErr ==
    /\ s_pc = "set_err"
    /\ ScannerMayRun
    /\ status_guard = "scanner"
    /\ SD_STATUS' = result.err
    /\ status_guard' = "none"
    /\ s_pc' = "store"
    /\ UNCHANGED <<SD_FILES, files_guard, readerVars, taskVars, driverVars,
                   listVars, result, ghostVars>>

\* Faulty variant, used to test the properties: the Err arm forgets to store the returned pair.
S_StoreOnlyAfterSuccess ==
    /\ s_pc = "store"
    /\ ScannerMayRun
    /\ spi' = IF result.tag = "Ok" THEN result.new_spi ELSE spi
    /\ cs' = IF result.tag = "Ok" THEN result.new_cs ELSE cs
    /\ result' = [result EXCEPT !.new_spi = Moved, !.new_cs = Moved]
    /\ s_pc' = "arm_timer"
    /\ UNCHANGED <<sharedVars, readerVars, s_timer, driverVars, listVars,
                   ghostVars>>
\* spi = new_spi; cs = new_cs; (last statements of both arms)
S_Store ==
    /\ s_pc = "store"
    /\ ScannerMayRun
    /\ spi' = result.new_spi
    /\ cs' = result.new_cs
    /\ result' = [result EXCEPT !.new_spi = Moved, !.new_cs = Moved]
    /\ s_pc' = "arm_timer"
    /\ UNCHANGED <<sharedVars, readerVars, s_timer, driverVars, listVars,
                   ghostVars>>

\* Timer::after(Duration::from_secs(15)).await: the task suspends.
S_Sleep ==
    /\ s_pc = "arm_timer"
    /\ ScannerMayRun
    /\ s_timer' = SCAN_INTERVAL_SECS
    /\ committed' = [status |-> SD_STATUS, files |-> SD_FILES]
    /\ s_pc' = "sleep"
    /\ UNCHANGED <<sharedVars, readerVars, spi, cs, driverVars, listVars,
                   result, roundtrip, cs_count,
                   last_listing, ready_listing, ignored>>

\* The inter-scan timer fires; the loop starts over.
S_Wake ==
    /\ s_pc = "sleep"
    /\ ScannerMayRun
    /\ s_pc' = "begin_scan"
    /\ UNCHANGED <<sharedVars, readerVars, taskVars, driverVars, listVars,
                   result, ghostVars>>

Scanner ==
    \/ S_SettleDone \/ S_BeginScan \/ S_NewSdCard \/ S_Probe \/ S_Mount
    \/ S_OpenRoot \/ S_Iterate \/ S_Close \/ S_LockFiles \/ S_Clear \/ S_Push
    \/ S_UnlockFiles \/ S_LockStatus \/ S_SetReady \/ S_LockStatusErr
    \/ S_SetErr \/ S_Store \/ S_Sleep \/ S_Wake

\* ------------------------------------------- http_server_task / handle_client
\* Timer::after(Duration::from_millis(500)).await completes.
R_StartupDone ==
    /\ r_pc = "startup"
    /\ ReaderMayRun
    /\ r_pc' = "accept"
    /\ UNCHANGED <<sharedVars, scannerVars, status_str, file_count, rendered>>

\* socket.accept(80).await: a connection, or an error followed by a 100 ms timer.
R_Accept ==
    /\ r_pc = "accept"
    /\ ReaderMayRun
    /\ \E ok \in BOOLEAN : r_pc' = IF ok THEN "read" ELSE "accept_backoff"
    /\ UNCHANGED <<sharedVars, scannerVars, status_str, file_count, rendered>>

\* The 100 ms timer after an accept error fires; continue.
R_AcceptBackoff ==
    /\ r_pc = "accept_backoff"
    /\ ReaderMayRun
    /\ r_pc' = "accept"
    /\ UNCHANGED <<sharedVars, scannerVars, status_str, file_count, rendered>>

\* with_timeout(5 s, socket.read(..)).await and the parse of the request line.
\* A read error, a timeout and an empty request return at once; a first line
\* with fewer than two parts skips the response; a request goes on to the locks.
\* "overflow" is a first line of four or more whitespace-separated parts:
\* collecting them into heapless::Vec<&str, 3> panics, and panic_probe halts
\* the firmware.
RequestOutcomes == {"error", "timeout", "empty", "unparsable", "request",
                    "overflow"}
R_Read ==
    /\ r_pc = "read"
    /\ ReaderMayRun
    /\ \E outcome \in RequestOutcomes :
        r_pc' = CASE outcome \in {"error", "timeout", "empty"} -> "abort_timer"
                  [] outcome = "unparsable" -> "client_timer"
                  [] outcome = "overflow" -> "panicked"
                  [] OTHER -> "lock_status"
    /\ UNCHANGED <<sharedVars, scannerVars, status_str, file_count, rendered>>

\* let sd_status = SD_STATUS.lock().await;
R_LockStatus ==
    /\ r_pc = "lock_status"
    /\ ReaderMayRun
    /\ ~LockPending(status_guard)
    /\ status_guard' = "reader"
    /\ r_pc' = "lock_files"
    /\ UNCHANGED <<SD_FILES, SD_STATUS, files_guard, scannerVars, status_str,
                   file_count, rendered>>

\* let files = SD_FILES.lock().await;
R_LockFiles ==
    /\ r_pc = "lock_files"
    /\ ReaderMayRun
    /\ ~LockPending(files_guard)
    /\ files_guard' = "reader"
    /\ r_pc' = "snapshot"
    /\ UNCHANGED <<SD_FILES, SD_STATUS, status_guard, scannerVars, status_str,
                   file_count, rendered>>

\* Faulty variant, used to test the properties: the Catalog guard is dropped
\* together with the Status guard, before the response is written.
R_SnapshotDropsBothGuards ==
    /\ r_pc = "snapshot"
    /\ ReaderMayRun
    /\ files_guard = "reader" /\ status_guard = "reader"
    /\ file_count' = Len(SD_FILES)
    /\ status_str' = SD_STATUS
    /\ status_guard' = "none"
    /\ files_guard' = "none"
    /\ rendered' = <<>>
    /\ r_pc' = "write_head"
    /\ UNCHANGED <<SD_FILES, SD_STATUS, scannerVars>>

\* file_count = files.len(); status_str = *sd_status; drop(sd_status); then the
\* first socket.write_all(..).await.
R_Snapshot ==
    /\ r_pc = "snapshot"
    /\ ReaderMayRun
    /\ files_guard = "reader" /\ status_guard = "reader"
    /\ file_count' = Len(SD_FILES)
    /\ status_str' = SD_STATUS
    /\ status_guard' = "none"
    /\ rendered' = <<>>
    /\ r_pc' = "write_head"
    /\ UNCHANGED <<SD_FILES, SD_STATUS, files_guard, scannerVars>>

\* The response head and page header have been written.
R_WriteHead ==
    /\ r_pc = "write_head"
    /\ ReaderMayRun
    /\ r_pc' = IF file_count = 0 THEN "write_empty" ELSE "write_count"
    /\ UNCHANGED <<sharedVars, scannerVars, status_str, file_count, rendered>>

\* file_count == 0: the status box and the "No files found" hints.
R_WriteEmpty ==
    /\ r_pc = "write_empty"
    /\ ReaderMayRun
    /\ r_pc' = "write_foot"
    /\ UNCHANGED <<sharedVars, scannerVars, status_str, file_count, rendered>>

\* file_count > 0: the status line and the count.
R_WriteCount ==
    /\ r_pc = "write_count"
    /\ ReaderMayRun
    /\ r_pc' = "write_entry"
    /\ UNCHANGED <<sharedVars, scannerVars, status_str, file_count, rendered>>

\* for file_info in files.iter() { .. }  -- one <li> written through the guard
R_WriteEntry ==
    /\ r_pc = "write_entry"
    /\ ReaderMayRun
    /\ files_guard = "reader"
    /\ Len(rendered) < Len(SD_FILES)
    /\ rendered' = Append(rendered, SD_FILES[Len(rendered) + 1])
    /\ UNCHANGED <<sharedVars, scannerVars, r_pc, status_str, file_count>>

\* The iterator is exhausted: </ul> and on to the footer.
R_EntriesDone ==
    /\ r_pc = "write_entry"
    /\ ReaderMayRun
    /\ Len(rendered) = Len(SD_FILES)
    /\ r_pc' = "write_foot"
    /\ UNCHANGED <<sharedVars, scannerVars, status_str, file_count, rendered>>

\* Faulty variant, used to test the properties: the reader empties the Catalog when it finishes a response.
R_WriteFootClearsCatalog ==
    /\ r_pc = "write_foot"
    /\ ReaderMayRun
    /\ files_guard = "reader"
    /\ files_guard' = "none"
    /\ SD_FILES' = <<>>
    /\ status_str' = ""
    /\ file_count' = 0
    /\ rendered' = <<>>
    /\ r_pc' = "client_timer"
    /\ UNCHANGED <<SD_STATUS, status_guard, scannerVars>>
\* The footer has been written; the block ends, dropping the SD_FILES guard
\* and the locals; Timer::after(100 ms).await.
R_WriteFoot ==
    /\ r_pc = "write_foot"
    /\ ReaderMayRun
    /\ files_guard = "reader"
    /\ files_guard' = "none"
    /\ status_str' = ""
    /\ file_count' = 0
    /\ rendered' = <<>>
    /\ r_pc' = "client_timer"
    /\ UNCHANGED <<SD_FILES, SD_STATUS, status_guard, scannerVars>>

\* handle_client returns; socket.abort(); Timer::after(50 ms).await.
R_ClientTimer ==
    /\ r_pc = "client_timer"
    /\ ReaderMayRun
    /\ r_pc' = "abort_timer"
    /\ UNCHANGED <<sharedVars, scannerVars, status_str, file_count, rendered>>

\* The 50 ms timer fires; back to accept.
R_AbortTimer ==
    /\ r_pc = "abort_timer"
    /\ ReaderMayRun
    /\ r_pc' = "accept"
    /\ UNCHANGED <<sharedVars, scannerVars, status_str, file_count, rendered>>

Reader ==
    \/ R_StartupDone \/ R_Accept \/ R_AcceptBackoff \/ R_Read \/ R_LockStatus
    \/ R_LockFiles \/ R_Snapshot \/ R_WriteHead \/ R_WriteEmpty \/ R_WriteCount
    \/ R_WriteEntry \/ R_EntriesDone \/ R_WriteFoot \/ R_ClientTimer
    \/ R_AbortTimer

Next == Scanner \/ Reader

Spec == Init /\ [][Next]_vars

\* Timers fire and a task that has been woken is polled: a step of
\* sd_card_task that is possible again and again is eventually taken, and
\* the reader's socket operations (bounded by the 30 s socket timeout and the
\* 5 s read timeout) and timers complete.
FairSpec == Spec /\ SF_vars(Scanner) /\ WF_vars(Reader)


\* ==================================================================== claims

\* C1: a scan cycle that fails at the probe, mount or open-root stage leaves
\* the Catalog exactly as it was when the cycle began; the failure branch
\* never takes the SD_FILES guard and writes only Status.
C1_FailedScanLeavesCatalog ==
    result.tag = "Err" =>
        /\ SD_FILES = committed.files
        /\ cs_count.files = 0
        /\ files_guard # "scanner"

\* A failed cycle has just published its message over a non-empty Catalog.
C1_Witness ==
    /\ result.tag = "Err"
    /\ s_pc = "arm_timer"
    /\ committed.files # <<>>
    /\ SD_STATUS = result.err
    /\ SD_STATUS # committed.status

\* C2: once a successful scan has been published, the Catalog is the list of
\* enumerated entries in enumeration order cut to the first 32, nothing of
\* the previous Catalog remains, and Status is "Ready".
C2_SuccessPublishesFirst32 ==
    (result.tag = "Ok" /\ s_pc \in {"store", "arm_timer", "sleep", "begin_scan"}) =>
        LET n == IF Len(enumerated) < 32 THEN Len(enumerated) ELSE 32
        IN  /\ Len(SD_FILES) = n
            /\ \A i \in 1..n :
                /\ SD_FILES[i].name = enumerated[i].name
                /\ SD_FILES[i].size = enumerated[i].size
                /\ SD_FILES[i].is_dir = enumerated[i].directory
            /\ SD_STATUS = "Ready"

\* A directory of more than 32 entries has replaced a different, non-empty
\* Catalog.
C2_Witness ==
    /\ result.tag = "Ok"
    /\ s_pc = "arm_timer"
    /\ Len(enumerated) > 32
    /\ Len(SD_FILES) = 32
    /\ committed.files # <<>>
    /\ committed.files[1] # SD_FILES[1]

\* C3: the (Status, Catalog) pair a request reads is the pair as it stood at
\* the last cycle boundary or the pair the cycle now being published ends
\* with; it never combines the Status of one with the Catalog of the other.
C3_SnapshotIsOneOutcome ==
    [][R_Snapshot =>
        LET before == <<committed.status, committed.files>>
            after == CASE result.tag = "Ok" -> <<STATUS_READY, file_list>>
                       [] result.tag = "Err" -> <<result.err, committed.files>>
                       [] OTHER -> before
        IN  <<status_str', SD_FILES'>> \in {before, after}]_vars

\* A request holds its snapshot while a successful scan with a different
\* listing waits to publish.
C3_Witness ==
    /\ r_pc \in {"write_head", "write_count", "write_entry", "write_foot"}
    /\ s_pc = "lock_files"
    /\ result.tag = "Ok"
    /\ file_list # SD_FILES
    /\ status_str = committed.status
    /\ status_str # STATUS_READY


\* C4: the bus handle and select line are always in exactly one place (the
\* task's variables, the driver layers, or the value read_sd_card returned);
\* every return of read_sd_card, Ok or Err, carries them with no layer left
\* around them; and the task holds both again whenever a cycle begins.
C4_PairRoundTrip ==
    /\ LET at(w, token) == IF w = token THEN 1 ELSE 0
       IN  /\ at(spi, "SPI0") + at(dev_spi, "SPI0") + at(result.new_spi, "SPI0") = 1
           /\ at(cs, "PIN_5") + at(dev_cs, "PIN_5") + at(result.new_cs, "PIN_5") = 1
    /\ (spi = "SPI0") = (cs = "PIN_5")
    /\ (dev_spi = "SPI0") = (dev_cs = "PIN_5")
    /\ (s_pc \in {"settle", "begin_scan", "arm_timer", "sleep"}) =>
            (spi = "SPI0" /\ cs = "PIN_5")
    /\ (result.tag \in {"Ok", "Err"} /\ s_pc \notin {"arm_timer", "sleep", "begin_scan"}) =>
            (result.new_spi = "SPI0" /\ result.new_cs = "PIN_5" /\ layers = <<>>)

\* A cycle begins with the pair in hand right after a scan that succeeded
\* following a probe failure, a mount failure and an open-root failure.
C4_Witness ==
    /\ roundtrip = 4
    /\ s_pc = "begin_scan"
    /\ spi = "SPI0" /\ cs = "PIN_5"
    /\ SD_STATUS = "Ready"

\* C5: the stages run in the order probe, mount, open root directory; the
\* first one that fails ends the attempt, nothing after it runs, and its
\* message is the Status once the cycle has published.
C5_FirstFailingStageDecidesStatus ==
    /\ stages = SubSeq(<<"probe", "mount", "open_root", "iterate", "close">>,
                       1, Len(stages))
    /\ result.tag = "Err" =>
        /\ Len(stages) \in 1..3
        /\ result.err = IF Len(stages) = 1 THEN "No SD card detected"
                        ELSE IF Len(stages) = 2
                             THEN "Failed to open volume (format as FAT32)"
                             ELSE "Failed to open root directory"
        /\ enumerated = <<>> /\ file_list = <<>>
        /\ (s_pc \in {"store", "arm_timer", "sleep", "begin_scan"}) =>
                SD_STATUS = result.err

\* The scanner sleeps after a cycle whose open-root stage failed.
C5_Witness ==
    /\ s_pc = "sleep"
    /\ result.tag = "Err"
    /\ stages = <<"probe", "mount", "open_root">>
    /\ SD_STATUS = "Failed to open root directory"

\* C6: the scanner and the reader are never each waiting for a guard the
\* other holds.
C6_NoGuardDeadlock ==
    LET scannerWaitsOnReader ==
            \/ s_pc = "lock_files" /\ files_guard = "reader"
            \/ s_pc \in {"lock_status", "lock_status_err"} /\ status_guard = "reader"
        readerWaitsOnScanner ==
            \/ r_pc = "lock_files" /\ files_guard = "scanner"
            \/ r_pc = "lock_status" /\ status_guard = "scanner"
    IN  ~(scannerWaitsOnReader /\ readerWaitsOnScanner)

\* The scanner waits for the SD_FILES guard while a response holds it.
C6_Witness ==
    /\ s_pc = "lock_files"
    /\ files_guard = "reader"
    /\ result.tag = "Ok"
    /\ r_pc = "write_entry"


\* C7: whatever a scan attempt returned, the cycle ends in the same 15 s
\* sleep, the sleep is followed by a new attempt, and attempts begin again
\* and again for ever: the loop has no terminal state.
C7_ScannerKeepsScanning ==
    /\ [](s_pc = "sleep" => s_timer = 15)
    /\ \A tag \in {"Ok", "Err"} :
        (result.tag = tag /\ s_pc \in {"lock_files", "lock_status_err"})
            ~> (result.tag = tag /\ s_pc = "sleep")
    /\ (s_pc = "sleep") ~> (s_pc = "probe")
    /\ []<>(s_pc = "probe")


\* C8: the clear and the refill of the Catalog happen with the SD_FILES guard
\* held by the scanner and the reader suspended outside its own reads, so
\* whatever a request reads through its guard (the count, then entry after
\* entry) is one whole list: the Catalog of the last cycle boundary or the
\* full list of the scan just published.
C8_ReaderSeesWholeCatalog ==
    /\ (s_pc \in {"clear", "push"}) =>
            (files_guard = "scanner" /\ ReaderSuspended /\ r_pc # "snapshot")
    /\ (files_guard = "reader") =>
            \/ SD_FILES = committed.files
            \/ result.tag = "Ok" /\ SD_FILES = file_list
    /\ (r_pc \in {"write_head", "write_empty", "write_count", "write_entry",
                  "write_foot"}) =>
            /\ files_guard = "reader"
            /\ file_count = Len(SD_FILES)
            /\ rendered = SubSeq(SD_FILES, 1, Len(rendered))

\* A response is part-way through its listing while a finished scan holds a
\* different list ready to publish.
C8_Witness ==
    /\ r_pc = "write_entry"
    /\ Len(rendered) >= 1
    /\ Len(rendered) < file_count
    /\ s_pc = "lock_files"
    /\ result.tag = "Ok"
    /\ file_list # SD_FILES

\* C9: no task is suspended on device or network I/O, or on a timer, while it
\* holds a guard, so a task waiting for a guard never waits for another
\* task's I/O.
C9_NoIOWhileHoldingGuard ==
    /\ (r_pc \in ReaderSocketIO \cup ReaderTimers) =>
            (files_guard # "reader" /\ status_guard # "reader")
    /\ (s_pc \in {"settle", "sleep", "new_sdcard", "probe", "mount", "open_root",
                  "iterate", "close"}) =>
            (files_guard # "scanner" /\ status_guard # "scanner")
    /\ (s_pc = "lock_files" /\ files_guard = "reader") =>
            r_pc \notin ReaderSocketIO

\* C10: Catalog and Status start as (empty, "Initializing..."); only steps of
\* the scanner inside its own guards change them, in at most one critical
\* section per guard per cycle; no step of the reader changes either; nothing
\* is published while the startup delay runs; and as long as no cycle has
\* published, every snapshot is ("Initializing...", empty).
C10_OnlyScannerMutates ==
    /\ [][Reader => (SD_FILES' = SD_FILES /\ SD_STATUS' = SD_STATUS)]_vars
    /\ [][/\ (SD_FILES' # SD_FILES) =>
                (files_guard = "scanner" /\ s_pc \in {"clear", "push"})
          /\ (SD_STATUS' # SD_STATUS) =>
                (status_guard = "scanner" /\ s_pc \in {"set_ready", "set_err"})]_vars
    /\ [](cs_count.files <= 1 /\ cs_count.status <= 1)
    /\ [](s_pc = "settle" => (SD_FILES = <<>> /\ SD_STATUS = "Initializing..."))
    /\ []((committed.status = "Initializing..."
            /\ r_pc \in {"write_head", "write_empty", "write_count", "write_entry",
                         "write_foot"})
          => (status_str = "Initializing..." /\ file_count = 0 /\ rendered = <<>>))

\* A request reads ("Initializing...", empty) while the first scan, already
\* finished with a non-empty listing, has not published yet.
C10_Witness ==
    /\ r_pc = "write_empty"
    /\ status_str = "Initializing..."
    /\ file_count = 0
    /\ committed.status = "Initializing..."
    /\ s_pc = "lock_files"
    /\ result.tag = "Ok"
    /\ file_list # <<>>


\* C11: whenever sd_card_task is in its inter-scan sleep, the Catalog is the
\* list returned by the most recent successful scan attempt (empty when none
\* has succeeded yet) and Status is the outcome of the cycle just finished:
\* "Ready" after a success, the failing stage's message after a failure.  So
\* a probe failure after a success leaves "No SD card detected" over the last
\* published list, and a mount failure on the first cycle leaves the mount
\* message over an empty Catalog.
C11_SleepShowsLastOutcome ==
    s_pc = "sleep" =>
        /\ SD_FILES = last_listing
        /\ result.tag \in {"Ok", "Err"}
        /\ result.tag = "Ok" => SD_STATUS = "Ready" /\ last_listing = file_list
        /\ result.tag = "Err" =>
               /\ SD_STATUS = result.err
               /\ Len(stages) = 1 => SD_STATUS = "No SD card detected"
               /\ Len(stages) = 2 =>
                      SD_STATUS = "Failed to open volume (format as FAT32)"
               /\ Len(stages) = 3 => SD_STATUS = "Failed to open root directory"
               /\ last_listing = committed.files

\* A probe failure in a cycle that follows a successful scan of a non-empty
\* directory: the scanner sleeps with the error Status over the old listing.
C11_Witness ==
    /\ s_pc = "sleep"
    /\ result.tag = "Err"
    /\ stages = <<"probe">>
    /\ SD_STATUS = "No SD card detected"
    /\ Len(SD_FILES) = SmallDirLen
    /\ SD_FILES = last_listing


\* C12: a response whose snapshot read Status = "Ready" renders a Catalog that
\* is the list of the scan that set that "Ready", or of a later successful
\* scan; it is never an older Catalog.  The same holds of the shared pair
\* whenever no Catalog replacement is in progress.
C12_ReadyNeverOverOlderCatalog ==
    /\ (r_pc \in {"write_head", "write_empty", "write_count", "write_entry",
                  "write_foot"} /\ status_str = "Ready")
           => SD_FILES \in {ready_listing, last_listing}
    /\ (SD_STATUS = "Ready" /\ files_guard # "scanner")
           => SD_FILES \in {ready_listing, last_listing}
    /\ (SD_STATUS = "Ready" /\ s_pc \in {"store", "arm_timer", "sleep"}
            /\ result.tag = "Ok")
           => SD_FILES = ready_listing /\ ready_listing = file_list

\* A response that read "Ready" while a second successful scan, which returned
\* a different list, is waiting for the Catalog guard: the response renders
\* the list of the scan that had set "Ready".
C12_Witness ==
    /\ r_pc = "write_entry"
    /\ status_str = "Ready"
    /\ SD_FILES = ready_listing
    /\ s_pc = "lock_files"
    /\ result.tag = "Ok"
    /\ last_listing # ready_listing


\* C13: once open_root_dir has succeeded the scan attempt returns Ok.  An
\* enumeration that stops early with an error, an entry that finds the list
\* full, and a failed close_dir or close_volume are all discarded: the list
\* returned is what was collected up to that point, and the cycle ends with
\* Status "Ready", never with an error message.
C13_OpenedRootAlwaysSucceeds ==
    /\ s_pc \in {"iterate", "close"} => dir_open /\ result.tag = "none"
    /\ (s_pc = "iterate" \/ Len(stages) >= 4) => result.tag # "Err"
    /\ ignored # {} => s_pc \in {"close", "lock_files", "lock_status_err"}
    /\ (ignored # {} /\ result.tag = "Err") =>
           /\ stages = <<"probe", "mount", "open_root">>
           /\ ignored = {"close_volume"}
           /\ result.err = "Failed to open root directory"
    /\ (Len(stages) = 5 /\ s_pc # "close") =>
           LET n == IF Len(enumerated) < 32 THEN Len(enumerated) ELSE 32
           IN  /\ result.tag = "Ok"
               /\ file_list = [i \in 1..n |-> FileInfo(enumerated[i])]
    /\ (Len(stages) = 5 /\ s_pc \in {"store", "arm_timer", "sleep"})
           => SD_STATUS = "Ready"
    /\ SD_STATUS \in {"No SD card detected",
                      "Failed to open volume (format as FAT32)",
                      "Failed to open root directory"}
           => (Len(stages) <= 3 \/ s_pc \in {"iterate", "close", "lock_files",
                   "clear", "push", "lock_status", "set_ready"})

\* A scan attempt has returned Ok with the single entry it had collected,
\* although the enumeration stopped with an error and both closes failed.
C13_Witness ==
    /\ s_pc = "lock_files"
    /\ ignored = {"iterate_dir", "close_dir", "close_volume"}
    /\ result.tag = "Ok"
    /\ Len(file_list) = 1
    /\ last_listing = file_list


\* C14: when read_sd_card returns, on any path, it has released exactly what
\* it had acquired, newest first: the card driver then the device after a
\* probe failure; the volume manager, the card driver, the device after a
\* mount failure; the volume first and then those three after an open-root
\* failure; the directory, the volume and then those three on success.
\* Nothing is held once it has returned.
C14_ReleasesInReverseOrder ==
    /\ [](result.tag # "none" =>
             /\ layers = <<>>
             /\ ~volume_open
             /\ ~dir_open
             /\ dev_spi = Moved
             /\ dev_cs = Moved)
    /\ [](result.tag = "Err" =>
             /\ Len(stages) = 1 => released = <<"sdcard", "device">>
             /\ Len(stages) = 2 => released = <<"volmgr", "sdcard", "device">>
             /\ Len(stages) = 3 =>
                    released = <<"volume", "volmgr", "sdcard", "device">>)
    /\ [](result.tag = "Ok" =>
             released = <<"dir", "volume", "volmgr", "sdcard", "device">>)
    /\ [][(result.tag = "none" /\ result'.tag # "none") =>
             LET held == layers \o (IF volume_open THEN <<"volume">> ELSE <<>>)
                                \o (IF dir_open THEN <<"dir">> ELSE <<>>)
             IN  released' = [i \in 1..Len(held) |-> held[Len(held) + 1 - i]]
         ]_vars

\* An open-root failure has returned: the volume was closed first, then the
\* volume manager, the card driver and the device were freed.
C14_Witness ==
    /\ s_pc = "lock_status_err"
    /\ result.tag = "Err"
    /\ stages = <<"probe", "mount", "open_root">>
    /\ released = <<"volume", "volmgr", "sdcard", "device">>
    /\ layers = <<>>
    /\ ~volume_open


\* C15: the shared Catalog never holds more than 32 entries and neither does
\* the list a scan attempt is building or has returned, however long the
\* directory is; and publishing drops nothing of the returned list: while it
\* is being copied the Catalog is the part copied so far, and afterwards the
\* Catalog is the whole returned list.
C15_CapacityAndLosslessPublish ==
    /\ Len(SD_FILES) <= 32
    /\ Len(file_list) <= 32
    /\ Len(last_listing) <= 32
    /\ s_pc = "push" =>
           /\ push_i <= Len(file_list)
           /\ SD_FILES = SubSeq(file_list, 1, push_i)
    /\ (result.tag = "Ok" /\ s_pc \in {"lock_status", "set_ready", "store",
                                       "arm_timer", "sleep"}) =>
           /\ Len(SD_FILES) = Len(file_list)
           /\ \A i \in 1..Len(file_list) : SD_FILES[i] = file_list[i]

\* A scan of a 33-entry directory returned 32 entries, and all 32 have been
\* copied over a Catalog that was itself full.
C15_Witness ==
    /\ s_pc = "lock_status"
    /\ result.tag = "Ok"
    /\ Len(enumerated) = MaxDirLen
    /\ Len(file_list) = 32
    /\ SD_FILES = file_list
    /\ Len(committed.files) = 32
    /\ committed.files # file_list


\* C16: Status is always one of five strings: "Initializing...", "Ready" and
\* the three stage-failure messages.  Once it has left "Initializing..." it
\* never returns to it, and it has left it by the time the first scan cycle
\* has stored its outcome.
C16_StatusValues ==
    /\ [](SD_STATUS \in {"Initializing...", "Ready", "No SD card detected",
                         "Failed to open volume (format as FAT32)",
                         "Failed to open root directory"})
    /\ [][SD_STATUS # "Initializing..." => SD_STATUS' # "Initializing..."]_vars
    /\ [](s_pc \in {"store", "arm_timer", "sleep"}
              => SD_STATUS # "Initializing...")
    /\ [](SD_STATUS = "Initializing..."
              => committed.status = "Initializing..." /\ ready_listing = <<>>)

\* A second cycle is under way after a first one that failed to open the root
\* directory: Status still shows that failure, not "Initializing...".
C16_Witness ==
    /\ s_pc = "probe"
    /\ SD_STATUS = "Failed to open root directory"
    /\ committed.status = "Failed to open root directory"
    /\ ready_listing = <<>>


\* C17: sd_card_task holds no guard while it makes a scan attempt or sleeps,
\* and never holds both guards at once.  It holds the Catalog guard only
\* while it clears and refills the Catalog, and the Status guard only for the
\* assignment of Status; in the Ok arm the Status guard is taken after the
\* Catalog guard has been dropped.
C17_ScannerGuardDiscipline ==
    /\ ~(files_guard = "scanner" /\ status_guard = "scanner")
    /\ files_guard = "scanner" <=> s_pc \in {"clear", "push"}
    /\ status_guard = "scanner" <=> s_pc \in {"set_ready", "set_err"}
    /\ s_pc \in {"settle", "begin_scan", "new_sdcard", "probe", "mount",
                 "open_root", "iterate", "close", "arm_timer", "sleep"}
           => files_guard # "scanner" /\ status_guard # "scanner"
    /\ s_pc = "set_ready" => cs_count = [files |-> 1, status |-> 1]
    /\ s_pc = "set_err" => cs_count = [files |-> 0, status |-> 1]
    /\ cs_count.files <= 1 /\ cs_count.status <= 1

\* The Ok arm holds the Status guard, having already dropped the Catalog
\* guard it used to publish a non-empty list.
C17_Witness ==
    /\ s_pc = "set_ready"
    /\ status_guard = "scanner"
    /\ files_guard = "none"
    /\ cs_count = [files |-> 1, status |-> 1]
    /\ SD_FILES = file_list
    /\ Len(SD_FILES) = 32


\* C18: handle_client holds the Catalog guard from reading the count to the
\* end of the response, so the Catalog does not change under it and the count
\* and the rendered entries belong to one Catalog.  A successful scan that
\* returns during a response therefore waits: it has published neither its
\* list nor "Ready" while the response lasts.  A failed scan needs only the
\* Status guard, which the reader dropped after its snapshot, so during a
\* response Status can change, but only to a stage-failure message.
C18_ResponseHoldsCatalogGuard ==
    /\ [](r_pc \in {"write_head", "write_empty", "write_count", "write_entry",
                    "write_foot"} =>
             /\ files_guard = "reader"
             /\ status_guard # "reader"
             /\ s_pc \notin {"clear", "push", "lock_status", "set_ready"}
             /\ s_pc = "lock_files" =>
                    /\ result.tag = "Ok"
                    /\ SD_FILES = committed.files
                    /\ SD_STATUS = committed.status
                    /\ cs_count = [files |-> 0, status |-> 0]
             /\ status_str # SD_STATUS =>
                    SD_STATUS \in {"No SD card detected",
                                   "Failed to open volume (format as FAT32)",
                                   "Failed to open root directory"})
    /\ [][(r_pc \in {"write_head", "write_empty", "write_count",
                     "write_entry", "write_foot"})
              => (SD_FILES' = SD_FILES)]_vars
    /\ [](r_pc = "write_foot" =>
             /\ Len(rendered) = file_count
             /\ \A i \in 1..file_count : rendered[i] = SD_FILES[i])

\* During one response that read "Ready", a failed scan has published its
\* message and a later successful scan, holding a different list, is waiting
\* for the Catalog guard.
C18_Witness ==
    /\ r_pc = "write_entry"
    /\ status_str = "Ready"
    /\ SD_STATUS = "No SD card detected"
    /\ s_pc = "lock_files"
    /\ result.tag = "Ok"
    /\ file_list # SD_FILES
    /\ files_guard = "reader"

====
